---------------------------- MODULE Spec2Model ----------------------------
(***************************************************************************)
(* A model of ChromaSort, a ball-sort puzzle: the rule engine and level    *)
(* generator of utils/gameLogic (src/components/Ball.tsx, lines 41-158),   *)
(* the difficulty model of src/constants.ts and the session state machine  *)
(* of the App component (src/unnamed/part_000).                            *)
(*                                                                         *)
(* A board is a sequence of tubes; the tube at JavaScript array index i is *)
(* element i+1 of the sequence.  A tube is a record [id, capacity, balls]  *)
(* and a ball a record [id, colorId], as in src/types.ts.  balls is kept   *)
(* bottom-to-top: the top ball is the last element.                        *)
(***************************************************************************)
EXTENDS Integers, Sequences, FiniteSets, TLC

(***************************************************************************)
(* Program constants.                                                      *)
(***************************************************************************)
TUBE_CAPACITY == 4

RepairAttempts == 100

NumEmpty == 2

(***************************************************************************)
(* Bounds of the model.  TOTAL_LEVELS is 30 in src/constants.ts and the    *)
(* shipped level configurations have 4..12 colours, 60..234 shuffles,      *)
(* 63..237 moves and 125..386 seconds; the session is explored with the    *)
(* scaled-down values below.                                               *)
(***************************************************************************)
TOTAL_LEVELS == 2

SessColors == 2

SessShuffles == 1

SessMaxMoves == 3

SessTimeLimit == 2

GenMaxColors == 2

GenMaxEmpty == 2

GenMaxShuffles == 3

PureColors == 2

(***************************************************************************)
(* Small helpers.                                                          *)
(***************************************************************************)
Min(S) == CHOOSE x \in S : \A y \in S : x <= y

Last(s) == s[Len(s)]

ButLast(s) == SubSeq(s, 1, Len(s) - 1)

\* The value of tubes.find(...) when no element matches (JavaScript undefined).
Undefined == [undefined |-> TRUE]

\* uuidv4(): a fresh identifier, unique within the board.  The ball created
\* k-th (k = 1..TUBE_CAPACITY) for tube index i gets the identifier below.
uuidv4(i, k) == i * TUBE_CAPACITY + k

(***************************************************************************)
(* Rule engine (utils/gameLogic).  tubes.every(p) is a universal           *)
(* quantification over the elements of the array.                          *)
(***************************************************************************)
\* tube.balls.every(b => b.colorId === tube.balls[0].colorId)
isAllSame(balls) == \A k \in 1..Len(balls) : balls[k].colorId = balls[1].colorId

WinTube_NoFullCheck(tube) ==
    IF Len(tube.balls) = 0 THEN TRUE
    ELSE isAllSame(tube.balls)

\* The callback of tubes.every in checkWinCondition.
WinTube(tube) ==
    IF Len(tube.balls) = 0 THEN TRUE
    ELSE IF Len(tube.balls) # TUBE_CAPACITY THEN FALSE
    ELSE isAllSame(tube.balls)

checkWinCondition(tubes) == \A i \in 1..Len(tubes) : WinTube(tubes[i])

isValidMove_NoColorCheck(sourceTube, destTube) ==
    IF sourceTube.id = destTube.id THEN FALSE
    ELSE IF Len(sourceTube.balls) = 0 THEN FALSE
    ELSE IF Len(destTube.balls) >= destTube.capacity THEN FALSE
    ELSE TRUE

isValidMove_NoCapacityCheck(sourceTube, destTube) ==
    IF sourceTube.id = destTube.id THEN FALSE
    ELSE IF Len(sourceTube.balls) = 0 THEN FALSE
    ELSE IF Len(destTube.balls) = 0 THEN TRUE
    ELSE Last(sourceTube.balls).colorId = Last(destTube.balls).colorId

isValidMove(sourceTube, destTube) ==
    IF sourceTube.id = destTube.id THEN FALSE
    ELSE IF Len(sourceTube.balls) = 0 THEN FALSE
    ELSE IF Len(destTube.balls) >= destTube.capacity THEN FALSE
    ELSE LET sourceBall == Last(sourceTube.balls)
         IN  IF Len(destTube.balls) = 0 THEN TRUE
             ELSE LET destBall == Last(destTube.balls)
                  IN  sourceBall.colorId = destBall.colorId

(***************************************************************************)
(* Level generator (generateLevel).  Math.random() is a nondeterministic   *)
(* choice: every element of movePool can be drawn.                         *)
(***************************************************************************)
\* 1. Create Solved State
SolvedState(config) ==
    [i \in 1..(config.numColors + config.numEmpty) |->
        [id       |-> i - 1,
         capacity |-> TUBE_CAPACITY,
         balls    |-> IF i - 1 < config.numColors
                      THEN [k \in 1..TUBE_CAPACITY |->
                               [id |-> uuidv4(i - 1, k), colorId |-> i - 1]]
                      ELSE << >>]]

\* The moves collected by the two nested loops of a scramble step; from and to
\* are array indices 0..totalTubes-1.
availableMoves(tubes) ==
    {m \in [from : 0..(Len(tubes) - 1), to : 0..(Len(tubes) - 1)] :
        /\ Len(tubes[m.from + 1].balls) # 0
        /\ m.from # m.to
        /\ Len(tubes[m.to + 1].balls) < tubes[m.to + 1].capacity}

usefulMoves(tubes, previousSource) ==
    {m \in availableMoves(tubes) : m.to # previousSource}

movePool(tubes, previousSource) ==
    IF usefulMoves(tubes, previousSource) # {}
    THEN usefulMoves(tubes, previousSource)
    ELSE availableMoves(tubes)

PerformMove_NoPop(tubes, from, to) ==
    LET ball == Last(tubes[from + 1].balls)
    IN  [tubes EXCEPT ![to + 1].balls = Append(@, ball)]

\* tubes[from].balls.pop() then tubes[to].balls.push(ball)
PerformMove(tubes, from, to) ==
    LET ball == Last(tubes[from + 1].balls)
    IN  [tubes EXCEPT ![from + 1].balls = ButLast(@),
                      ![to + 1].balls   = Append(@, ball)]

\* tubes.find(t => t.id !== i && t.balls.length < t.capacity)
validDest(tubes, i) ==
    LET hits == {j \in 1..Len(tubes) :
                    tubes[j].id # i /\ Len(tubes[j].balls) < tubes[j].capacity}
    IN  IF hits = {} THEN Undefined ELSE tubes[Min(hits)]

\* Whether the scan of the repair pass finds tube index i pre-solved.
isSolvedTube(tube) ==
    Len(tube.balls) = TUBE_CAPACITY /\ isAllSame(tube.balls)

\* The body of the for loop of one repair pass, from tube index i on; st is
\* [tubes, hasSolvedTube].  The array is mutated in place, so index i sees
\* what the earlier indices did.
RECURSIVE RepairScan(_, _)
RepairScan(st, i) ==
    IF i >= Len(st.tubes) THEN st
    ELSE IF isSolvedTube(st.tubes[i + 1])
         THEN LET dest == validDest(st.tubes, i)
                  moved == IF dest = Undefined THEN st.tubes
                           ELSE PerformMove(st.tubes, i, dest.id)
              IN  RepairScan([tubes |-> moved, hasSolvedTube |-> TRUE], i + 1)
         ELSE RepairScan(st, i + 1)

\* 3. Post-Shuffle Validation: while (hasSolvedTube && attempts < 100)
RECURSIVE RepairLoop(_, _, _)
RepairLoop(tubes, hasSolvedTube, attempts) ==
    IF hasSolvedTube /\ attempts < RepairAttempts
    THEN LET st == RepairScan([tubes |-> tubes, hasSolvedTube |-> FALSE], 0)
         IN  RepairLoop(st.tubes, st.hasSolvedTube, attempts + 1)
    ELSE tubes

PostShuffleValidation_Skipped(tubes) == tubes

PostShuffleValidation(tubes) == RepairLoop(tubes, TRUE, 0)

\* One iteration of the scramble loop on [tubes, previousSource, stopped]: the
\* set of states it can lead to.  An empty pool executes break.
ScrambleStep(s) ==
    IF s.stopped THEN {s}
    ELSE IF movePool(s.tubes, s.previousSource) = {}
         THEN {[s EXCEPT !.stopped = TRUE]}
         ELSE {[tubes          |-> PerformMove(s.tubes, m.from, m.to),
                previousSource |-> m.from,
                stopped        |-> FALSE] :
                   m \in movePool(s.tubes, s.previousSource)}

\* The states the scramble loop can be in after n iterations.
RECURSIVE ScrambleStates(_, _)
ScrambleStates(config, n) ==
    IF n = 0
    THEN {[tubes |-> SolvedState(config), previousSource |-> -1,
           stopped |-> FALSE]}
    ELSE UNION {ScrambleStep(s) : s \in ScrambleStates(config, n - 1)}

\* The boards generateLevel(config) can return.
generateLevel(config) ==
    {PostShuffleValidation(s.tubes) : s \in ScrambleStates(config, config.shuffles)}

(***************************************************************************)
(* Difficulty model as the session uses it.  initLevel and handleReset     *)
(* both read getLevelConfig(level); the session is explored under the      *)
(* scaled configuration below, the same for every level and with the       *)
(* shipped numEmpty.                                                       *)
(***************************************************************************)
sessionConfig(levelIndex) ==
    [numColors |-> SessColors,
     numEmpty  |-> NumEmpty,
     shuffles  |-> SessShuffles,
     maxMoves  |-> SessMaxMoves,
     timeLimit |-> SessTimeLimit]

Levels == 0..(TOTAL_LEVELS - 1)

(***************************************************************************)
(* getLevelConfig as shipped (constants.ts lines 22-59), over the shipped  *)
(* level indices.                                                          *)
(***************************************************************************)
\* BALL_COLORS.length
BALL_COLORS_length == 12

\* TOTAL_LEVELS as shipped; the session is explored with the bound above.
ShippedLevels == 30

\* Math.ceil(n * 1.5) for a non-negative integer n: n * 1.5 is the exact
\* double 3n/2, a whole number or a whole number and a half.
Math_ceil_3halves_FloorInstead(n) == (3 * n) \div 2

Math_ceil_3halves(n) ==
    IF (3 * n) % 2 = 0 THEN (3 * n) \div 2 ELSE (3 * n) \div 2 + 1

getLevelConfig(levelIndex) ==
    LET n0 == 4
        n1 == IF levelIndex >= 1 THEN 5 ELSE n0
        n2 == IF levelIndex >= 3 THEN 6 ELSE n1
        n3 == IF levelIndex >= 5 THEN 7 ELSE n2
        n4 == IF levelIndex >= 7 THEN 8 ELSE n3
        n5 == IF levelIndex >= 10 THEN 9 ELSE n4
        n6 == IF levelIndex >= 13 THEN 10 ELSE n5
        n7 == IF levelIndex >= 16 THEN 11 ELSE n6
        n8 == IF levelIndex >= 19 THEN 12 ELSE n7
        numColors == Min({n8, BALL_COLORS_length})
        shuffles  == 60 + (levelIndex * 6)
        maxMoves  == shuffles + 3
        timeLimit == 30 + Math_ceil_3halves(maxMoves)
    IN  [numColors |-> numColors,
         numEmpty  |-> 2,
         shuffles  |-> shuffles,
         maxMoves  |-> maxMoves,
         timeLimit |-> timeLimit]

\* The boards generateLevel can return for each level, computed once.
LevelBoards == [l \in Levels |-> generateLevel(sessionConfig(l))]

(***************************************************************************)
(* State.                                                                  *)
(*   gameState, showLevelMenu, unlockedLevels: the App component's state.  *)
(*   timerArmed: an interval created by the timer effect is running.       *)
(*   effectDeps: the dependency values the timer effect last ran with.     *)
(*   tickedStale: the interval fired after a commit changed the effect's   *)
(*     dependencies and before the effect ran again.                       *)
(*   crashed: an updater threw.                                            *)
(*   lastOp: the handler, effect or callback that ran last, with its       *)
(*     argument and with the selection, the status and the unlock frontier *)
(*     it found.                                                           *)
(*   moveSnap: the board, history and move count a valid move found, kept  *)
(*     while that move, or an undo right after it, is the last operation.  *)
(*   tally: the valid moves applied and the effective undos performed      *)
(*     since the last level start or reset.                                *)
(*   gen*: the local variables of a running generateLevel.                 *)
(*   genPrevTo: the destination of the last scramble move (the code keeps  *)
(*     only its source, previousSource).                                   *)
(*   pureBoard, pureOut: an input of the rule engine and its results.      *)
(*   cfgLevels, cfgOut: two level indices and getLevelConfig of each.      *)
(***************************************************************************)
VARIABLES gameState, showLevelMenu, unlockedLevels, timerArmed, effectDeps,
          tickedStale, crashed, lastOp, moveSnap, tally,
          genConfig, genTubes, genPrev, genPrevTo, genI, genPc, genPool,
          pureBoard, pureOut,
          cfgLevels, cfgOut

sessVars == <<gameState, showLevelMenu, unlockedLevels, timerArmed, effectDeps,
              tickedStale, crashed, lastOp, moveSnap, tally>>

genVars == <<genConfig, genTubes, genPrev, genPrevTo, genI, genPc, genPool>>

pureVars == <<pureBoard, pureOut>>

cfgVars == <<cfgLevels, cfgOut>>

vars == <<sessVars, genVars, pureVars, cfgVars>>

\* gameState === null
Null == [null |-> TRUE]

\* selectedTubeId === null
NullId == -1

\* Playing, Completed or Failed, as the two flags say.
Status(gs) ==
    IF gs = Null THEN "none"
    ELSE IF gs.isCompleted /\ gs.isFailed THEN "both"
    ELSE IF gs.isCompleted THEN "completed"
    ELSE IF gs.isFailed THEN "failed"
    ELSE "playing"

Op(name, arg) ==
    [op  |-> name,
     arg |-> arg,
     sel |-> IF gameState = Null THEN NullId ELSE gameState.selectedTubeId,
     was |-> Status(gameState),
     unl |-> unlockedLevels]

ZeroTally == [applied |-> 0, undone |-> 0]

SessIdle ==
    /\ gameState = Null
    /\ showLevelMenu = TRUE
    /\ unlockedLevels = 1
    /\ timerArmed = FALSE
    /\ effectDeps = <<TRUE, Null, Null>>
    /\ tickedStale = FALSE
    /\ crashed = FALSE
    /\ lastOp = [op |-> "mount", arg |-> 0, sel |-> NullId, was |-> "none",
                 unl |-> 1]
    /\ moveSnap = Null
    /\ tally = ZeroTally

GenIdle ==
    /\ genConfig = Null
    /\ genTubes = << >>
    /\ genPrev = -1
    /\ genPrevTo = -1
    /\ genI = 0
    /\ genPc = "idle"
    /\ genPool = {}

PureIdle ==
    /\ pureBoard = << >>
    /\ pureOut = Null

CfgIdle ==
    /\ cfgLevels = << >>
    /\ cfgOut = Null

(***************************************************************************)
(* Session state machine (App).                                            *)
(***************************************************************************)
\* JSON.parse(JSON.stringify(tubes)): a new array of new objects carrying the
\* enumerable fields of each tube and of each ball.
JsonClone(tubes) ==
    [i \in 1..Len(tubes) |->
        [id       |-> tubes[i].id,
         balls    |-> [k \in 1..Len(tubes[i].balls) |->
                          [id      |-> tubes[i].balls[k].id,
                           colorId |-> tubes[i].balls[k].colorId]],
         capacity |-> tubes[i].capacity]]

\* gameState?.isCompleted and gameState?.isFailed: undefined while gameState
\* is null.
OptField(val) == [value |-> val]

\* The dependency array of the timer effect.
TimerDeps ==
    <<showLevelMenu,
      IF gameState = Null THEN Null ELSE OptField(gameState.isCompleted),
      IF gameState = Null THEN Null ELSE OptField(gameState.isFailed)>>

\* The condition under which the timer effect creates the interval.
TimerCondition_NeverArms == FALSE

TimerCondition ==
    /\ ~showLevelMenu
    /\ gameState # Null
    /\ ~gameState.isCompleted
    /\ ~gameState.isFailed
    /\ gameState.timeLeft > 0

\* React runs an effect again after a commit that changed its dependencies.
EffectPending == TimerDeps # effectDeps

\* The game view (tubes, controls, modals) is rendered.
GameView == ~showLevelMenu /\ gameState # Null

\* A click is dispatched to the handlers of the last commit, after its
\* effects ran.
UserCanAct == ~crashed /\ ~EffectPending

\* The tube ids a click can carry: the ids on a board and one that is on no
\* board.
ClickIds == 0..(SessColors + NumEmpty)

\* tubes.find(t => t.id === id)
FindTube(tubes, id) ==
    LET hits == {i \in 1..Len(tubes) : tubes[i].id = id}
    IN  IF hits = {} THEN Undefined ELSE tubes[Min(hits)]

\* tubes.map(...) of a valid move: new source and destination, the others as
\* they are.
MoveTubes_Duplicate(tubes, sourceTube, destTube) ==
    LET ballToMove == Last(sourceTube.balls)
    IN  [i \in 1..Len(tubes) |->
            IF tubes[i].id = destTube.id
            THEN [tubes[i] EXCEPT !.balls = Append(@, ballToMove)]
            ELSE tubes[i]]

MoveTubes_DropsBall(tubes, sourceTube, destTube) ==
    [i \in 1..Len(tubes) |->
        IF tubes[i].id = sourceTube.id
        THEN [tubes[i] EXCEPT !.balls = ButLast(@)]
        ELSE tubes[i]]

MoveTubes(tubes, sourceTube, destTube) ==
    LET ballToMove == Last(sourceTube.balls)
    IN  [i \in 1..Len(tubes) |->
            IF tubes[i].id = sourceTube.id
            THEN [tubes[i] EXCEPT !.balls = ButLast(@)]
            ELSE IF tubes[i].id = destTube.id
            THEN [tubes[i] EXCEPT !.balls = Append(@, ballToMove)]
            ELSE tubes[i]]

\* The state a valid move returns (the object literal of lines 179-187).
MoveResult_FailOverridesWin(prev, newTubes) ==
    LET newMoveCount == prev.moves + 1
        isWin  == checkWinCondition(newTubes)
        isFail == newMoveCount >= prev.maxMoves
    IN  [prev EXCEPT !.tubes = newTubes,
                     !.selectedTubeId = NullId,
                     !.moves = newMoveCount,
                     !.isCompleted = isWin /\ ~isFail,
                     !.isFailed = isFail,
                     !.history = Append(prev.history, prev.tubes)]

MoveResult_SnapshotsNewBoard(prev, newTubes) ==
    LET newMoveCount == prev.moves + 1
        isWin  == checkWinCondition(newTubes)
        isFail == ~isWin /\ newMoveCount >= prev.maxMoves
    IN  [prev EXCEPT !.tubes = newTubes,
                     !.selectedTubeId = NullId,
                     !.moves = newMoveCount,
                     !.isCompleted = isWin,
                     !.isFailed = isFail,
                     !.history = Append(prev.history, newTubes)]

MoveResult_NeverFails(prev, newTubes) ==
    LET newMoveCount == prev.moves + 1
        isWin  == checkWinCondition(newTubes)
    IN  [prev EXCEPT !.tubes = newTubes,
                     !.selectedTubeId = NullId,
                     !.moves = newMoveCount,
                     !.isCompleted = isWin,
                     !.isFailed = FALSE,
                     !.history = Append(prev.history, prev.tubes)]

MoveResult(prev, newTubes) ==
    LET newMoveCount == prev.moves + 1
        isWin  == checkWinCondition(newTubes)
        isFail == ~isWin /\ newMoveCount >= prev.maxMoves
    IN  [prev EXCEPT !.tubes = newTubes,
                     !.selectedTubeId = NullId,
                     !.moves = newMoveCount,
                     !.isCompleted = isWin,
                     !.isFailed = isFail,
                     !.history = Append(prev.history, prev.tubes)]

\* The state an invalid move returns: switch selection.
InvalidMoveResult_KeepsSelection(prev, id, destTube) == prev

InvalidMoveResult(prev, id, destTube) ==
    IF Len(destTube.balls) > 0
    THEN [prev EXCEPT !.selectedTubeId = id]
    ELSE [prev EXCEPT !.selectedTubeId = NullId]

\* Whether the updater of handleTubeClick throws: with a tube selected and a
\* different id clicked, isValidMove reads destTube.id of an undefined destTube.
ClickThrows(prev, id) ==
    /\ prev.selectedTubeId # NullId
    /\ prev.selectedTubeId # id
    /\ FindTube(prev.tubes, id) = Undefined

\* The updater of handleTubeClick, where it does not throw.
ClickUpdater_SelectsEmpty(prev, id) ==
    IF prev.selectedTubeId = NullId
    THEN LET tube == FindTube(prev.tubes, id)
         IN  IF tube = Undefined THEN prev
             ELSE [prev EXCEPT !.selectedTubeId = id]
    ELSE IF prev.selectedTubeId = id
    THEN [prev EXCEPT !.selectedTubeId = NullId]
    ELSE LET sourceTube == FindTube(prev.tubes, prev.selectedTubeId)
             destTube   == FindTube(prev.tubes, id)
         IN  IF isValidMove(sourceTube, destTube)
             THEN MoveResult(prev, MoveTubes(prev.tubes, sourceTube, destTube))
             ELSE InvalidMoveResult(prev, id, destTube)

ClickUpdater_NoToggle(prev, id) ==
    IF prev.selectedTubeId = NullId
    THEN LET tube == FindTube(prev.tubes, id)
         IN  IF tube = Undefined \/ Len(tube.balls) = 0 THEN prev
             ELSE [prev EXCEPT !.selectedTubeId = id]
    ELSE LET sourceTube == FindTube(prev.tubes, prev.selectedTubeId)
             destTube   == FindTube(prev.tubes, id)
         IN  IF isValidMove(sourceTube, destTube)
             THEN MoveResult(prev, MoveTubes(prev.tubes, sourceTube, destTube))
             ELSE InvalidMoveResult(prev, id, destTube)

ClickUpdater(prev, id) ==
    IF prev.selectedTubeId = NullId
    THEN LET tube == FindTube(prev.tubes, id)
         IN  IF tube = Undefined \/ Len(tube.balls) = 0 THEN prev
             ELSE [prev EXCEPT !.selectedTubeId = id]
    ELSE IF prev.selectedTubeId = id
    THEN [prev EXCEPT !.selectedTubeId = NullId]
    ELSE LET sourceTube == FindTube(prev.tubes, prev.selectedTubeId)
             destTube   == FindTube(prev.tubes, id)
         IN  IF isValidMove(sourceTube, destTube)
             THEN MoveResult(prev, MoveTubes(prev.tubes, sourceTube, destTube))
             ELSE InvalidMoveResult(prev, id, destTube)

\* Whether the updater takes the valid-move branch.
ClickMoves(prev, id) ==
    /\ prev.selectedTubeId # NullId
    /\ prev.selectedTubeId # id
    /\ FindTube(prev.tubes, id) # Undefined
    /\ isValidMove(FindTube(prev.tubes, prev.selectedTubeId),
                   FindTube(prev.tubes, id))

\* The unlock frontier after a winning move (lines 172-176).
NextUnlocked_NoRangeCheck(level, unlocked) ==
    IF level + 1 >= unlocked
    THEN level + 2
    ELSE unlocked

NextUnlocked(level, unlocked) ==
    IF level + 1 >= unlocked /\ level + 1 < TOTAL_LEVELS
    THEN level + 2
    ELSE unlocked

\* The updater of handleUndo.
UndoUpdater_RefundsMove(prev) ==
    IF Len(prev.history) = 0 \/ prev.isFailed \/ prev.isCompleted THEN prev
    ELSE [prev EXCEPT !.tubes = Last(prev.history),
                      !.selectedTubeId = NullId,
                      !.moves = prev.moves - 1,
                      !.history = ButLast(prev.history),
                      !.isCompleted = FALSE,
                      !.isFailed = FALSE]

UndoUpdater_IgnoresTerminal(prev) ==
    IF Len(prev.history) = 0 THEN prev
    ELSE [prev EXCEPT !.tubes = Last(prev.history),
                      !.selectedTubeId = NullId,
                      !.history = ButLast(prev.history),
                      !.isCompleted = FALSE,
                      !.isFailed = FALSE]

UndoUpdater_KeepsHistory(prev) ==
    IF Len(prev.history) = 0 \/ prev.isFailed \/ prev.isCompleted THEN prev
    ELSE [prev EXCEPT !.tubes = Last(prev.history),
                      !.selectedTubeId = NullId,
                      !.isCompleted = FALSE,
                      !.isFailed = FALSE]

UndoUpdater_KeepsSelection(prev) ==
    IF Len(prev.history) = 0 \/ prev.isFailed \/ prev.isCompleted THEN prev
    ELSE [prev EXCEPT !.tubes = Last(prev.history),
                      !.history = ButLast(prev.history),
                      !.isCompleted = FALSE,
                      !.isFailed = FALSE]

UndoUpdater_KeepsBoard(prev) ==
    IF Len(prev.history) = 0 \/ prev.isFailed \/ prev.isCompleted THEN prev
    ELSE [prev EXCEPT !.selectedTubeId = NullId,
                      !.history = ButLast(prev.history),
                      !.isCompleted = FALSE,
                      !.isFailed = FALSE]

UndoUpdater(prev) ==
    IF Len(prev.history) = 0 \/ prev.isFailed \/ prev.isCompleted THEN prev
    ELSE LET previousTubes == Last(prev.history)
             newHistory    == ButLast(prev.history)
         IN  [prev EXCEPT !.tubes = previousTubes,
                          !.selectedTubeId = NullId,
                          !.moves = prev.moves,
                          !.history = newHistory,
                          !.isCompleted = FALSE,
                          !.isFailed = FALSE,
                          !.timeLeft = prev.timeLeft]

\* The updater of the interval callback.
TickUpdater_FailsEarly(prev) ==
    IF prev = Null THEN Null
    ELSE LET newTime == prev.timeLeft - 1
         IN  IF newTime <= 1
             THEN [prev EXCEPT !.timeLeft = 0, !.isFailed = TRUE]
             ELSE [prev EXCEPT !.timeLeft = newTime]

TickUpdater(prev) ==
    IF prev = Null THEN Null
    ELSE LET newTime == prev.timeLeft - 1
         IN  IF newTime <= 0
             THEN [prev EXCEPT !.timeLeft = 0, !.isFailed = TRUE]
             ELSE [prev EXCEPT !.timeLeft = newTime]

\* The state initLevel sets for a generated board.
NewState_ShortTime(levelIndex, config, newTubes) ==
    [tubes          |-> newTubes,
     initialTubes   |-> JsonClone(newTubes),
     selectedTubeId |-> NullId,
     moves          |-> 0,
     maxMoves       |-> config.maxMoves,
     level          |-> levelIndex,
     isCompleted    |-> FALSE,
     isFailed       |-> FALSE,
     history        |-> << >>,
     timeLeft       |-> config.timeLimit - 1,
     totalTime      |-> config.timeLimit]

NewState(levelIndex, config, newTubes) ==
    [tubes          |-> newTubes,
     initialTubes   |-> JsonClone(newTubes),
     selectedTubeId |-> NullId,
     moves          |-> 0,
     maxMoves       |-> config.maxMoves,
     level          |-> levelIndex,
     isCompleted    |-> FALSE,
     isFailed       |-> FALSE,
     history        |-> << >>,
     timeLeft       |-> config.timeLimit,
     totalTime      |-> config.timeLimit]

\* The state handleReset sets.  initialTubes is set by initLevel, so the
\* generateLevel fallback is not taken.
ResetState_KeepsBoard(gs, config) ==
    [gs EXCEPT !.selectedTubeId = NullId,
               !.moves = 0,
               !.maxMoves = config.maxMoves,
               !.isCompleted = FALSE,
               !.isFailed = FALSE,
               !.history = << >>,
               !.timeLeft = config.timeLimit,
               !.totalTime = config.timeLimit]

ResetState_RecapturesBoard(gs, config) ==
    [gs EXCEPT !.tubes = JsonClone(gs.initialTubes),
               !.initialTubes = gs.tubes,
               !.selectedTubeId = NullId,
               !.moves = 0,
               !.maxMoves = config.maxMoves,
               !.isCompleted = FALSE,
               !.isFailed = FALSE,
               !.history = << >>,
               !.timeLeft = config.timeLimit,
               !.totalTime = config.timeLimit]

ResetState(gs, config) ==
    [gs EXCEPT !.tubes = JsonClone(gs.initialTubes),
               !.initialTubes = gs.initialTubes,
               !.selectedTubeId = NullId,
               !.moves = 0,
               !.maxMoves = config.maxMoves,
               !.isCompleted = FALSE,
               !.isFailed = FALSE,
               !.history = << >>,
               !.timeLeft = config.timeLimit,
               !.totalTime = config.timeLimit]

(***************************************************************************)
(* Session actions: one per handler, effect or callback.                   *)
(***************************************************************************)
sessFrame == UNCHANGED <<genVars, pureVars, cfgVars>>

\* initLevel(levelIndex): setGameState(newState); setShowLevelMenu(false)
initLevel(levelIndex) ==
    \E newTubes \in LevelBoards[levelIndex] :
        /\ gameState' = NewState(levelIndex, sessionConfig(levelIndex), newTubes)
        /\ showLevelMenu' = FALSE
        /\ tally' = ZeroTally

\* const isLocked = idx + 1 > unlockedLevels (line 400)
isLocked_Never(idx, unlocked) == FALSE

isLocked(idx, unlocked) == idx + 1 > unlocked

\* A level button of the menu: onClick={() => !isLocked && handleLevelSelect(idx)}
HandleLevelSelect(levelIndex) ==
    /\ UserCanAct
    /\ showLevelMenu
    /\ ~isLocked(levelIndex, unlockedLevels)
    /\ IF /\ gameState # Null
          /\ gameState.level = levelIndex
          /\ ~gameState.isCompleted
          /\ ~gameState.isFailed
       THEN showLevelMenu' = FALSE /\ UNCHANGED <<gameState, tally>>
       ELSE initLevel(levelIndex)
    /\ lastOp' = Op("levelSelect", levelIndex)
    /\ moveSnap' = Null
    /\ UNCHANGED <<unlockedLevels, timerArmed, effectDeps, tickedStale, crashed>>
    /\ sessFrame

\* The Resume button of the menu: setShowLevelMenu(false)
Resume ==
    /\ UserCanAct
    /\ showLevelMenu
    /\ gameState # Null
    /\ ~gameState.isCompleted
    /\ ~gameState.isFailed
    /\ showLevelMenu' = FALSE
    /\ lastOp' = Op("resume", 0)
    /\ UNCHANGED tally
    /\ moveSnap' = Null
    /\ UNCHANGED <<gameState, unlockedLevels, timerArmed, effectDeps,
                   tickedStale, crashed>>
    /\ sessFrame

\* The Menu buttons of the controls and of the modals: setShowLevelMenu(true)
Menu ==
    /\ UserCanAct
    /\ GameView
    /\ showLevelMenu' = TRUE
    /\ lastOp' = Op("menu", 0)
    /\ UNCHANGED tally
    /\ moveSnap' = Null
    /\ UNCHANGED <<gameState, unlockedLevels, timerArmed, effectDeps,
                   tickedStale, crashed>>
    /\ sessFrame

\* The Next Level button of the win modal: initLevel(gameState.level + 1)
NextLevel ==
    /\ UserCanAct
    /\ GameView
    /\ gameState.isCompleted
    /\ gameState.level < TOTAL_LEVELS - 1
    /\ initLevel(gameState.level + 1)
    /\ lastOp' = Op("nextLevel", gameState.level + 1)
    /\ moveSnap' = Null
    /\ UNCHANGED <<unlockedLevels, timerArmed, effectDeps, tickedStale, crashed>>
    /\ sessFrame

ClickWins_AnyMove(prev, id) == ClickMoves(prev, id)

\* Whether the valid move of a click makes isWin true.
ClickWins(prev, id) ==
    /\ ClickMoves(prev, id)
    /\ checkWinCondition(MoveTubes(prev.tubes,
                                   FindTube(prev.tubes, prev.selectedTubeId),
                                   FindTube(prev.tubes, id)))

\* The early return of handleTubeClick on a finished session (line 117).
ClickIgnored_OnlyCompleted(gs) == gs.isCompleted

ClickIgnored(gs) == gs.isCompleted \/ gs.isFailed

\* handleTubeClick(id), from a tube of the game view.
HandleTubeClick(id) ==
    /\ UserCanAct
    /\ GameView
    /\ lastOp' = Op("tubeClick", id)
    /\ tally' = IF Status(gameState) = "playing" /\ ClickMoves(gameState, id)
                THEN [tally EXCEPT !.applied = @ + 1]
                ELSE tally
    /\ moveSnap' = IF Status(gameState) = "playing" /\ ClickMoves(gameState, id)
                   THEN [tubes   |-> gameState.tubes,
                         history |-> gameState.history,
                         moves   |-> gameState.moves]
                   ELSE Null
    /\ IF ClickIgnored(gameState)
       THEN UNCHANGED <<gameState, unlockedLevels, crashed>>
       ELSE IF ClickThrows(gameState, id)
       THEN crashed' = TRUE /\ UNCHANGED <<gameState, unlockedLevels>>
       ELSE /\ gameState' = ClickUpdater(gameState, id)
            /\ unlockedLevels' =
                   IF ClickWins(gameState, id)
                   THEN NextUnlocked(gameState.level, unlockedLevels)
                   ELSE unlockedLevels
            /\ UNCHANGED crashed
    /\ UNCHANGED <<showLevelMenu, timerArmed, effectDeps, tickedStale>>
    /\ sessFrame

\* Whether the updater of handleUndo goes past its early return (line 200).
UndoApplies(prev) ==
    ~(Len(prev.history) = 0 \/ prev.isFailed \/ prev.isCompleted)

\* handleUndo(), from the controls.  lastOp.arg is the length of the history
\* it found.
HandleUndo ==
    /\ UserCanAct
    /\ GameView
    /\ gameState' = UndoUpdater(gameState)
    /\ lastOp' = Op("undo", Len(gameState.history))
    /\ tally' = IF UndoApplies(gameState)
                THEN [tally EXCEPT !.undone = @ + 1]
                ELSE tally
    /\ moveSnap' = IF lastOp.op = "tubeClick" THEN moveSnap ELSE Null
    /\ UNCHANGED <<showLevelMenu, unlockedLevels, timerArmed, effectDeps,
                   tickedStale, crashed>>
    /\ sessFrame

\* handleReset()
HandleReset ==
    /\ UserCanAct
    /\ GameView
    /\ gameState' = ResetState(gameState, sessionConfig(gameState.level))
    /\ lastOp' = Op("reset", 0)
    /\ tally' = ZeroTally
    /\ moveSnap' = Null
    /\ UNCHANGED <<showLevelMenu, unlockedLevels, timerArmed, effectDeps,
                   tickedStale, crashed>>
    /\ sessFrame

\* The timer effect: the cleanup of the previous run (clearInterval), then
\* the body, which creates the interval under TimerCondition.
TimerEffect ==
    /\ ~crashed
    /\ EffectPending
    /\ timerArmed' = TimerCondition
    /\ effectDeps' = TimerDeps
    /\ tickedStale' = FALSE
    /\ lastOp' = Op("timerEffect", 0)
    /\ UNCHANGED tally
    /\ moveSnap' = Null
    /\ UNCHANGED <<gameState, showLevelMenu, unlockedLevels, crashed>>
    /\ sessFrame

\* The interval callback.  The interval fires once a second, so at most once
\* between a commit and the effect that follows it.
Tick ==
    /\ ~crashed
    /\ timerArmed
    /\ ~tickedStale
    /\ gameState' = TickUpdater(gameState)
    /\ lastOp' = Op("tick", 0)
    /\ UNCHANGED tally
    /\ moveSnap' = Null
    /\ UNCHANGED <<showLevelMenu, unlockedLevels, timerArmed, effectDeps, crashed>>
    /\ tickedStale' = (TimerDeps' # effectDeps)
    /\ sessFrame

Init == SessIdle /\ GenIdle /\ PureIdle /\ CfgIdle

Next ==
    \/ \E levelIndex \in Levels : HandleLevelSelect(levelIndex)
    \/ Resume
    \/ Menu
    \/ NextLevel
    \/ \E id \in ClickIds : HandleTubeClick(id)
    \/ HandleUndo
    \/ HandleReset
    \/ TimerEffect
    \/ Tick

Spec == Init /\ [][Next]_vars

\* The session with its scheduling: the browser keeps firing an interval that
\* exists (setInterval, 1000 ms), and React runs a pending effect after the
\* commit that changed its dependencies.
LiveSpec == Spec /\ WF_vars(Tick) /\ WF_vars(TimerEffect)

(***************************************************************************)
(* generateLevel run step by step, over every configuration within the     *)
(* bounds.  genPc is "scramble" inside the for loop, "repair" between the  *)
(* loop and the post-shuffle validation, "done" at return.                 *)
(***************************************************************************)
GenConfigs ==
    [numColors : 1..GenMaxColors,
     numEmpty  : 0..GenMaxEmpty,
     shuffles  : 0..GenMaxShuffles,
     maxMoves  : {1},
     timeLimit : {1}]

genFrame == UNCHANGED <<sessVars, pureVars, cfgVars>>

GenInit ==
    /\ SessIdle
    /\ PureIdle
    /\ CfgIdle
    /\ genConfig \in GenConfigs
    /\ genTubes = SolvedState(genConfig)
    /\ genPrev = -1
    /\ genPrevTo = -1
    /\ genI = 0
    /\ genPc = "scramble"
    /\ genPool = {}

\* An iteration of the for loop that performs a move.
GenScramble ==
    /\ genPc = "scramble"
    /\ genI < genConfig.shuffles
    /\ movePool(genTubes, genPrev) # {}
    /\ \E randomMove \in movePool(genTubes, genPrev) :
          /\ genTubes' = PerformMove(genTubes, randomMove.from, randomMove.to)
          /\ genPrev' = randomMove.from
          /\ genPrevTo' = randomMove.to
    /\ genPool' = movePool(genTubes, genPrev)
    /\ genI' = genI + 1
    /\ UNCHANGED <<genConfig, genPc>>
    /\ genFrame

\* break: the pool is empty.
GenBreak ==
    /\ genPc = "scramble"
    /\ genI < genConfig.shuffles
    /\ movePool(genTubes, genPrev) = {}
    /\ genPc' = "repair"
    /\ UNCHANGED <<genConfig, genTubes, genPrev, genPrevTo, genI, genPool>>
    /\ genFrame

\* The loop condition i < shuffles fails.
GenLoopEnd ==
    /\ genPc = "scramble"
    /\ ~(genI < genConfig.shuffles)
    /\ genPc' = "repair"
    /\ UNCHANGED <<genConfig, genTubes, genPrev, genPrevTo, genI, genPool>>
    /\ genFrame

\* 3. Post-Shuffle Validation, and return tubes.
GenRepair ==
    /\ genPc = "repair"
    /\ genTubes' = PostShuffleValidation(genTubes)
    /\ genPc' = "done"
    /\ UNCHANGED <<genConfig, genPrev, genPrevTo, genI, genPool>>
    /\ genFrame

GenNext == GenScramble \/ GenBreak \/ GenLoopEnd \/ GenRepair

GenSpec == GenInit /\ [][GenNext]_vars

(***************************************************************************)
(* The rule engine applied to every board of two tubes of capacity         *)
(* TUBE_CAPACITY over PureColors colours.                                  *)
(***************************************************************************)
RECURSIVE SeqsUpTo(_, _)
SeqsUpTo(S, n) ==
    IF n = 0 THEN {<< >>}
    ELSE LET shorter == SeqsUpTo(S, n - 1)
         IN  shorter \cup {Append(q, x) : q \in {r \in shorter : Len(r) = n - 1}, x \in S}

PureColorSeqs == SeqsUpTo(0..(PureColors - 1), TUBE_CAPACITY)

PureTube(i, colors) ==
    [id       |-> i,
     capacity |-> TUBE_CAPACITY,
     balls    |-> [k \in 1..Len(colors) |->
                      [id |-> uuidv4(i, k), colorId |-> colors[k]]]]

PureBoards ==
    {<<PureTube(0, c0), PureTube(1, c1)>> : c0 \in PureColorSeqs, c1 \in PureColorSeqs}

pureFrame == UNCHANGED <<sessVars, genVars, cfgVars>>

PureInit ==
    /\ SessIdle
    /\ GenIdle
    /\ CfgIdle
    /\ pureBoard \in PureBoards
    /\ pureOut = Null

\* checkWinCondition(board) and isValidMove(source, dest) for every pair of
\* tubes of the board.
PureEvaluate ==
    /\ pureOut = Null
    /\ pureOut' = [win   |-> checkWinCondition(pureBoard),
                   valid |-> [p \in (1..2) \X (1..2) |->
                                 isValidMove(pureBoard[p[1]], pureBoard[p[2]])]]
    /\ UNCHANGED pureBoard
    /\ pureFrame

PureNext == PureEvaluate

PureSpec == PureInit /\ [][PureNext]_vars

(***************************************************************************)
(* getLevelConfig evaluated for every pair of shipped level indices.       *)
(***************************************************************************)
ShippedLevelIndices == 0..(ShippedLevels - 1)

cfgFrame == UNCHANGED <<sessVars, genVars, pureVars>>

CfgInit ==
    /\ SessIdle
    /\ GenIdle
    /\ PureIdle
    /\ cfgLevels \in ShippedLevelIndices \X ShippedLevelIndices
    /\ cfgOut = Null

\* getLevelConfig(levelIndex) for the two indices.
CfgEvaluate ==
    /\ cfgOut = Null
    /\ cfgOut' = <<getLevelConfig(cfgLevels[1]), getLevelConfig(cfgLevels[2])>>
    /\ UNCHANGED cfgLevels
    /\ cfgFrame

CfgNext == CfgEvaluate

CfgSpec == CfgInit /\ [][CfgNext]_vars

(***************************************************************************)
(* Properties.                                                             *)
(***************************************************************************)
Started == gameState # Null

\* The tube with the given id on a board that holds it.
TubeOf(tubes, id) == tubes[CHOOSE i \in 1..Len(tubes) : tubes[i].id = id]

OnBoard(tubes, id) == \E i \in 1..Len(tubes) : tubes[i].id = id

Colors(balls) == {balls[k].colorId : k \in 1..Len(balls)}

\* A tube S is selected in a Playing session and the step is a click on a
\* different tube D of the board.
ClickOnOther(S, D) ==
    /\ Started
    /\ Status(gameState) = "playing"
    /\ lastOp'.op = "tubeClick"
    /\ lastOp'.arg = D
    /\ gameState.selectedTubeId = S
    /\ S # NullId
    /\ D # S
    /\ OnBoard(gameState.tubes, S)
    /\ OnBoard(gameState.tubes, D)

\* C1: in every reachable session state isCompleted and isFailed are not both
\* true, whatever the interleaving of clicks, undo, reset, level start and
\* timer ticks.
C1_FlagsExclusive ==
    Started => ~(gameState.isCompleted /\ gameState.isFailed)

\* A tube that is both full and monochrome.
FullMonochrome(tube) ==
    Len(tube.balls) = TUBE_CAPACITY /\ Cardinality(Colors(tube.balls)) = 1

\* C2 as stated: for every configuration with numColors >= 1, numEmpty >= 0
\* and shuffles >= 0 the returned board has no full monochrome tube, so it
\* does not satisfy checkWinCondition.
C2_GeneratedNotSolved_Original ==
    genPc = "done" =>
        /\ \A i \in 1..Len(genTubes) : ~FullMonochrome(genTubes[i])
        /\ ~checkWinCondition(genTubes)

\* C2 as amended: the same for every configuration with numEmpty >= 1.
C2_GeneratedNotSolved ==
    (genPc = "done" /\ genConfig.numEmpty >= 1) =>
        /\ \A i \in 1..Len(genTubes) : ~FullMonochrome(genTubes[i])
        /\ ~checkWinCondition(genTubes)

\* generateLevel returned for a configuration with an empty tube and no
\* scramble move, so that every colour tube was pre-solved and repaired.
C2_Witness ==
    /\ genPc = "done"
    /\ genConfig.numEmpty >= 1
    /\ genConfig.shuffles = 0
    /\ genConfig.numColors = GenMaxColors

\* The number of balls of colour c on a board.
RECURSIVE CountColor(_, _, _)
CountColor(tubes, c, i) ==
    IF i > Len(tubes) THEN 0
    ELSE Cardinality({k \in 1..Len(tubes[i].balls) : tubes[i].balls[k].colorId = c})
         + CountColor(tubes, c, i + 1)

BoardShape(tubes, config) ==
    /\ Len(tubes) = config.numColors + config.numEmpty
    /\ \A i \in 1..Len(tubes) :
          /\ tubes[i].id = i - 1
          /\ tubes[i].capacity = 4
          /\ Len(tubes[i].balls) <= 4
          /\ Colors(tubes[i].balls) \subseteq 0..(config.numColors - 1)
    /\ \A c \in 0..(config.numColors - 1) : CountColor(tubes, c, 1) = 4

\* C3: after the scramble phase and after the repair phase the board has
\* numColors + numEmpty tubes with ids 0..n-1 and capacity 4, no tube holds
\* more than 4 balls, and there are exactly 4 balls of each colour.
C3_GeneratedShape ==
    genPc \in {"repair", "done"} => BoardShape(genTubes, genConfig)

\* generateLevel returned after scramble moves that left a board other than
\* the solved one.
C3_Witness ==
    /\ genPc = "done"
    /\ genI > 0
    /\ genConfig.numEmpty >= 1
    /\ genTubes # SolvedState(genConfig)

\* What C4 says isValidMove(source, dest) is.
C4_Expected(source, dest) ==
    IF source.id = dest.id \/ Len(source.balls) = 0
          \/ Len(dest.balls) = dest.capacity
    THEN FALSE
    ELSE IF Len(dest.balls) = 0 THEN TRUE
    ELSE source.balls[Len(source.balls)].colorId
            = dest.balls[Len(dest.balls)].colorId

\* C4: isValidMove(source, dest) is false for the same tube, an empty source
\* or a full destination; otherwise true for an empty destination, and
\* otherwise true exactly when the two top balls have the same colour.
C4_IsValidMove ==
    pureOut # Null =>
        \A p \in (1..2) \X (1..2) :
            pureOut.valid[p] = C4_Expected(pureBoard[p[1]], pureBoard[p[2]])

\* isValidMove was applied to two different non-empty tubes, the destination
\* not full, whose top balls differ in colour, and answered false; and to the
\* same pair with the top colours taken the other way round.
C4_Witness ==
    /\ pureOut # Null
    /\ Len(pureBoard[1].balls) = 2
    /\ Len(pureBoard[2].balls) = 3
    /\ Last(pureBoard[1].balls).colorId # Last(pureBoard[2].balls).colorId
    /\ pureBoard[1].balls[1].colorId = Last(pureBoard[2].balls).colorId
    /\ ~pureOut.valid[<<1, 2>>]
    /\ ~pureOut.valid[<<1, 1>>]

\* C5: checkWinCondition(board) is true exactly when every tube is empty or
\* holds exactly 4 balls of one colour.
C5_CheckWin ==
    pureOut # Null =>
        (pureOut.win <=>
            \A i \in 1..Len(pureBoard) :
                \/ pureBoard[i].balls = << >>
                \/ FullMonochrome(pureBoard[i]))

\* checkWinCondition was applied to a board with one tube of three balls of
\* one colour and an empty tube, and answered false.
C5_Witness ==
    /\ pureOut # Null
    /\ Len(pureBoard[1].balls) = 3
    /\ Cardinality(Colors(pureBoard[1].balls)) = 1
    /\ pureBoard[2].balls = << >>
    /\ ~pureOut.win

\* C6: a click on a different tube D with tube S selected and
\* isValidMove(S, D) true moves the top ball of S onto D and leaves every
\* other tube as it is, appends the pre-move board to history, adds 1 to
\* moves and clears the selection.
C6_ValidMoveEffect ==
    [][\A S \in ClickIds, D \in ClickIds :
          (/\ ClickOnOther(S, D)
           /\ isValidMove(TubeOf(gameState.tubes, S), TubeOf(gameState.tubes, D)))
          =>
          (/\ Len(gameState'.tubes) = Len(gameState.tubes)
           /\ \A i \in 1..Len(gameState.tubes) :
                 LET old == gameState.tubes[i]
                     new == gameState'.tubes[i]
                     top == TubeOf(gameState.tubes, S).balls[
                                Len(TubeOf(gameState.tubes, S).balls)]
                 IN  IF old.id = S
                     THEN new = [old EXCEPT
                                   !.balls = SubSeq(old.balls, 1, Len(old.balls) - 1)]
                     ELSE IF old.id = D
                     THEN new = [old EXCEPT !.balls = old.balls \o <<top>>]
                     ELSE new = old
           /\ gameState'.history = gameState.history \o <<gameState.tubes>>
           /\ gameState'.moves = gameState.moves + 1
           /\ gameState'.selectedTubeId = NullId)]_vars

\* A valid move has just been applied to a board that already had a move in
\* its history.
C6_Witness ==
    /\ Started
    /\ lastOp.op = "tubeClick"
    /\ moveSnap # Null
    /\ Len(moveSnap.history) > 0
    /\ gameState.tubes # moveSnap.tubes
    /\ gameState.moves = moveSnap.moves + 1

\* isWin of the specification: every tube is empty or full and monochrome.
AllSorted(tubes) ==
    \A i \in 1..Len(tubes) : tubes[i].balls = << >> \/ FullMonochrome(tubes[i])

\* C7: after a valid move the session is Completed, and not Failed, iff the
\* new board wins, also when the new move count equals maxMoves; it is
\* Failed, and not Completed, iff the new board does not win and the new move
\* count is at least maxMoves; otherwise it is Playing.
C7_MoveOutcome ==
    [][\A S \in ClickIds, D \in ClickIds :
          (/\ ClickOnOther(S, D)
           /\ isValidMove(TubeOf(gameState.tubes, S), TubeOf(gameState.tubes, D)))
          =>
          LET win   == AllSorted(gameState'.tubes)
              spent == gameState'.moves >= gameState'.maxMoves
          IN  /\ Status(gameState') = "completed" <=> win
              /\ Status(gameState') = "failed" <=> (~win /\ spent)
              /\ Status(gameState') = "playing" <=> (~win /\ ~spent)]_vars

\* A valid move has just won the level with the last move of the budget.
C7_Witness ==
    /\ Started
    /\ lastOp.op = "tubeClick"
    /\ moveSnap # Null
    /\ gameState.moves = gameState.maxMoves
    /\ AllSorted(gameState.tubes)
    /\ gameState.isCompleted
    /\ ~gameState.isFailed

\* C8: a click on a different tube D with tube S selected and
\* isValidMove(S, D) false leaves board, history, moves, timeLeft and both
\* flags as they are and selects D if D holds a ball, nothing otherwise.
C8_InvalidMoveEffect ==
    [][\A S \in ClickIds, D \in ClickIds :
          (/\ ClickOnOther(S, D)
           /\ ~isValidMove(TubeOf(gameState.tubes, S), TubeOf(gameState.tubes, D)))
          =>
          (/\ gameState'.tubes = gameState.tubes
           /\ gameState'.history = gameState.history
           /\ gameState'.moves = gameState.moves
           /\ gameState'.timeLeft = gameState.timeLeft
           /\ gameState'.isCompleted = gameState.isCompleted
           /\ gameState'.isFailed = gameState.isFailed
           /\ gameState'.selectedTubeId =
                  IF Len(TubeOf(gameState.tubes, D).balls) > 0 THEN D
                  ELSE NullId)]_vars

\* A click on another tube has just been refused as a move and switched the
\* selection to the clicked tube.
C8_Witness ==
    /\ Started
    /\ lastOp.op = "tubeClick"
    /\ lastOp.was = "playing"
    /\ lastOp.sel # NullId
    /\ lastOp.sel # lastOp.arg
    /\ gameState.selectedTubeId = lastOp.arg
    /\ gameState.moves > 0

\* C9: no undo changes moves; an undo in a Playing session with a non-empty
\* history sets the board to the last snapshot, removes that snapshot, clears
\* the selection and leaves maxMoves and timeLeft as they are.
C9_UndoEffect ==
    [][(Started /\ lastOp'.op = "undo")
          =>
          (/\ gameState'.moves = gameState.moves
           /\ (Status(gameState) = "playing" /\ Len(gameState.history) > 0)
                 =>
                 (/\ gameState'.tubes = gameState.history[Len(gameState.history)]
                  /\ gameState'.history =
                         SubSeq(gameState.history, 1, Len(gameState.history) - 1)
                  /\ gameState'.selectedTubeId = NullId
                  /\ gameState'.maxMoves = gameState.maxMoves
                  /\ gameState'.timeLeft = gameState.timeLeft))]_vars

\* An undo has just taken a snapshot off the history of a Playing session in
\* which an earlier undo had already taken one.
C9_Witness ==
    /\ Started
    /\ lastOp.op = "undo"
    /\ lastOp.was = "playing"
    /\ lastOp.arg > 0
    /\ Len(gameState.history) = lastOp.arg - 1
    /\ gameState.moves >= Len(gameState.history) + 2

\* C10: a valid move that leaves the session Playing, followed at once by an
\* undo, gives the board and the history the move found, and a move count one
\* greater.
C10_MoveThenUndo ==
    (/\ Started
     /\ lastOp.op = "undo"
     /\ lastOp.was = "playing"
     /\ moveSnap # Null)
    =>
    (/\ gameState.tubes = moveSnap.tubes
     /\ gameState.history = moveSnap.history
     /\ gameState.moves = moveSnap.moves + 1)

\* An undo has just followed a valid move that was the second of its history.
C10_Witness ==
    /\ Started
    /\ lastOp.op = "undo"
    /\ lastOp.was = "playing"
    /\ moveSnap # Null
    /\ Len(moveSnap.history) = 1
    /\ lastOp.arg = 2

\* C11: an undo that finds an empty history, or a session that is Completed
\* or Failed, leaves the whole session as it is.
C11_UndoNoOp ==
    [][(/\ Started
        /\ lastOp'.op = "undo"
        /\ (Len(gameState.history) = 0 \/ Status(gameState) # "playing"))
          => gameState' = gameState]_vars

\* An undo has just been refused in a Failed session that holds snapshots.
C11_Witness ==
    /\ Started
    /\ lastOp.op = "undo"
    /\ lastOp.was = "failed"
    /\ lastOp.arg > 0
    /\ Len(gameState.history) = lastOp.arg
    /\ gameState.isFailed

\* C12: a reset, from any state of a started session, gives a Playing
\* session whose board equals initialTubes by value, with no selection, moves
\* 0, an empty history and timeLeft = totalTime = the time limit of the
\* level; level and initialTubes are as before.
C12_ResetEffect ==
    [][(Started /\ lastOp'.op = "reset")
          =>
          (/\ Status(gameState') = "playing"
           /\ gameState'.tubes = gameState.initialTubes
           /\ gameState'.selectedTubeId = NullId
           /\ gameState'.moves = 0
           /\ gameState'.history = << >>
           /\ gameState'.timeLeft = sessionConfig(gameState.level).timeLimit
           /\ gameState'.totalTime = gameState'.timeLeft
           /\ gameState'.level = gameState.level
           /\ gameState'.initialTubes = gameState.initialTubes)]_vars

\* A reset has just restarted a session that had Failed: it is Playing again
\* on the initial board with the full time.
C12_Witness ==
    /\ Started
    /\ lastOp.op = "reset"
    /\ lastOp.was = "failed"
    /\ Status(gameState) = "playing"
    /\ gameState.tubes = gameState.initialTubes
    /\ gameState.moves = 0
    /\ gameState.timeLeft = gameState.totalTime

\* C13: a tick on a Playing session with timeLeft > 0 decreases timeLeft by
\* exactly 1, sets isFailed exactly when the new timeLeft is 0, and changes
\* nothing else: board, history, moves, selection and the other fields stay.
C13_TickEffect ==
    [][(/\ Started
        /\ lastOp'.op = "tick"
        /\ Status(gameState) = "playing"
        /\ gameState.timeLeft > 0)
          =>
          (/\ gameState'.timeLeft = gameState.timeLeft - 1
           /\ gameState'.isFailed = (gameState'.timeLeft = 0)
           /\ gameState' = [gameState EXCEPT
                               !.timeLeft = gameState'.timeLeft,
                               !.isFailed = gameState'.isFailed])]_vars

\* A tick has just taken the last second of a Playing session that had made
\* a move and held a selection: the session is Failed, the rest is in place.
C13_Witness ==
    /\ Started
    /\ lastOp.op = "tick"
    /\ lastOp.was = "playing"
    /\ lastOp.sel # NullId
    /\ gameState.selectedTubeId = lastOp.sel
    /\ gameState.moves > 0
    /\ gameState.timeLeft = 0
    /\ gameState.isFailed

\* C14: a tick on a session that is Completed or Failed changes neither
\* timeLeft nor isCompleted nor isFailed, wherever the tick falls after the
\* move that ended the session.
C14_TerminalTickNoOp ==
    [][(/\ Started
        /\ lastOp'.op = "tick"
        /\ Status(gameState) # "playing")
          =>
          (/\ gameState'.timeLeft = gameState.timeLeft
           /\ gameState'.isCompleted = gameState.isCompleted
           /\ gameState'.isFailed = gameState.isFailed)]_vars

\* C15: no step decreases unlockedLevels, and a step that changes it is a
\* tube click whose move completes the level; select, invalid move, undo,
\* reset, tick and level start leave it as it is.
C15_FrontierMonotone ==
    [][/\ unlockedLevels' >= unlockedLevels
       /\ (unlockedLevels' # unlockedLevels)
             => (/\ Started
                 /\ lastOp'.op = "tubeClick"
                 /\ Status(gameState) = "playing"
                 /\ gameState'.moves = gameState.moves + 1
                 /\ gameState'.isCompleted)]_vars

\* The move that completed level 0 has just raised the frontier from 1 to 2.
C15_Witness ==
    /\ Started
    /\ lastOp.op = "tubeClick"
    /\ lastOp.was = "playing"
    /\ lastOp.unl = 1
    /\ unlockedLevels = 2
    /\ gameState.isCompleted

\* C16: the move that completes level L makes the frontier L + 2 when
\* L + 1 >= frontier and L + 1 < TOTAL_LEVELS and leaves it as it is
\* otherwise, so that completing L again does not move it; applying the
\* unlock update once more to the result gives the same frontier.
C16_UnlockRule ==
    [][(/\ Started
        /\ lastOp'.op = "tubeClick"
        /\ Status(gameState) = "playing"
        /\ gameState'.isCompleted)
          =>
          (/\ unlockedLevels' =
                 IF /\ gameState.level + 1 >= unlockedLevels
                    /\ gameState.level + 1 < TOTAL_LEVELS
                 THEN gameState.level + 2
                 ELSE unlockedLevels
           /\ (unlockedLevels' # unlockedLevels) => unlockedLevels' = gameState.level + 2
           /\ NextUnlocked(gameState.level, unlockedLevels') = unlockedLevels')]_vars

\* Level 0 has just been completed again, with the frontier already at 2
\* from its first completion: the frontier is still 2.
C16_Witness ==
    /\ Started
    /\ lastOp.op = "tubeClick"
    /\ lastOp.was = "playing"
    /\ lastOp.unl = 2
    /\ gameState.level = 0
    /\ gameState.isCompleted
    /\ unlockedLevels = 2

\* The least whole number of seconds that is at least x-halves seconds.
CeilOfHalves(x) == CHOOSE n \in 0..x : 2 * n >= x /\ 2 * (n - 1) < x

\* C17: for every level index L in 0..29, getLevelConfig(L) has numEmpty 2,
\* shuffles 60 + 6L, maxMoves = shuffles + 3 and timeLimit = 30 +
\* ceil(1.5 * maxMoves); numColors is 4 at level 0, never exceeds 12 and does
\* not decrease from a level to a later one; getLevelConfig(0) is
\* (4, 2, 60, 63, 125).
C17_LevelConfig ==
    cfgOut # Null
    =>
    (/\ cfgOut[1].numEmpty = 2
     /\ cfgOut[1].shuffles = 60 + 6 * cfgLevels[1]
     /\ cfgOut[1].maxMoves = cfgOut[1].shuffles + 3
     /\ cfgOut[1].timeLimit = 30 + CeilOfHalves(3 * cfgOut[1].maxMoves)
     /\ cfgOut[1].numColors >= 4
     /\ cfgOut[1].numColors <= 12
     /\ (cfgLevels[1] <= cfgLevels[2])
           => (cfgOut[1].numColors <= cfgOut[2].numColors)
     /\ (cfgLevels[1] = 0)
           => (cfgOut[1] = [numColors |-> 4, numEmpty |-> 2, shuffles |-> 60,
                            maxMoves |-> 63, timeLimit |-> 125]))

\* The configurations of level 0 and of the last shipped level have been
\* computed: the palette is exhausted at the last level and the time limit
\* of level 0 is rounded up from 124.5.
C17_Witness ==
    /\ cfgOut # Null
    /\ cfgLevels = <<0, 29>>
    /\ cfgOut[1].timeLimit = 125
    /\ cfgOut[2].numColors = 12
    /\ cfgOut[2].shuffles = 234

\* C18: a tube click on a session that is Completed or Failed leaves the
\* whole session as it is: selection, board, history and move count.
C18_TerminalClickNoOp ==
    [][(/\ Started
        /\ lastOp'.op = "tubeClick"
        /\ Status(gameState) # "playing")
          =>
          (/\ gameState' = gameState
           /\ unlockedLevels' = unlockedLevels
           /\ crashed' = crashed)]_vars

\* A click on another tube of the board has just been ignored in a Failed
\* session that holds a selection.
C18_Witness ==
    /\ Started
    /\ lastOp.op = "tubeClick"
    /\ lastOp.was = "failed"
    /\ lastOp.sel # NullId
    /\ lastOp.arg # lastOp.sel
    /\ OnBoard(gameState.tubes, lastOp.arg)
    /\ gameState.selectedTubeId = lastOp.sel
    /\ ~crashed

\* C19: in a Playing session, a click whose tube id is not on the board
\* changes nothing and raises no error, whether or not a tube is selected.
C19_OffBoardClickNoOp ==
    [][(/\ Started
        /\ lastOp'.op = "tubeClick"
        /\ Status(gameState) = "playing"
        /\ ~OnBoard(gameState.tubes, lastOp'.arg))
          =>
          (/\ gameState' = gameState
           /\ ~crashed')]_vars

\* C20: in a Playing session with no tube selected, a click on tube T makes
\* T the selection when T holds a ball and changes nothing otherwise; board,
\* history and moves, and every field but the selection, are as before.
C20_SelectOnClick ==
    [][(/\ Started
        /\ lastOp'.op = "tubeClick"
        /\ Status(gameState) = "playing"
        /\ gameState.selectedTubeId = NullId)
          =>
          (/\ gameState' =
                 [gameState EXCEPT !.selectedTubeId = gameState'.selectedTubeId]
           /\ gameState'.selectedTubeId =
                 IF /\ OnBoard(gameState.tubes, lastOp'.arg)
                    /\ Len(TubeOf(gameState.tubes, lastOp'.arg).balls) >= 1
                 THEN lastOp'.arg
                 ELSE NullId
           /\ ~crashed')]_vars

\* After a move, a click on a tube that holds balls has just selected it in a
\* Playing session that had no selection, while another tube of the board is
\* empty.
C20_Witness ==
    /\ Started
    /\ lastOp.op = "tubeClick"
    /\ lastOp.was = "playing"
    /\ lastOp.sel = NullId
    /\ gameState.selectedTubeId = lastOp.arg
    /\ Len(TubeOf(gameState.tubes, lastOp.arg).balls) >= 1
    /\ gameState.moves > 0
    /\ \E i \in 1..Len(gameState.tubes) : Len(gameState.tubes[i].balls) = 0

\* C21: in a Playing session a click on the selected tube clears the
\* selection and changes nothing else; when the click before it was the one
\* that selected the tube, the session is again as that click found it, with
\* no selection.
C21_ToggleOff ==
    [][(/\ Started
        /\ lastOp'.op = "tubeClick"
        /\ Status(gameState) = "playing"
        /\ gameState.selectedTubeId # NullId
        /\ lastOp'.arg = gameState.selectedTubeId)
          =>
          (/\ gameState' = [gameState EXCEPT !.selectedTubeId = NullId]
           /\ unlockedLevels' = unlockedLevels
           /\ ~crashed'
           /\ (lastOp.op = "tubeClick" /\ lastOp.sel = NullId)
                 => gameState' = [gameState EXCEPT !.selectedTubeId = lastOp.sel])]_vars

\* After a move, a tube has been selected and the next click, on the same
\* tube, has just cleared the selection.
C21_Witness ==
    /\ Started
    /\ lastOp.op = "tubeClick"
    /\ lastOp.was = "playing"
    /\ lastOp.sel # NullId
    /\ lastOp.arg = lastOp.sel
    /\ gameState.selectedTubeId = NullId
    /\ Status(gameState) = "playing"
    /\ gameState.moves > 0

\* The step starts a level: the Next Level button, or a level button of the
\* menu other than the one of the level being played (which resumes it).
StartsLevel ==
    \/ lastOp'.op = "nextLevel"
    \/ /\ lastOp'.op = "levelSelect"
       /\ ~(/\ Started
            /\ gameState.level = lastOp'.arg
            /\ Status(gameState) = "playing")

\* C22: a level start gives a Playing session of the requested level with a
\* board generateLevel can return for it, initialTubes equal to that board,
\* no selection, moves 0, an empty history, the level's maxMoves and
\* timeLeft = totalTime = the level's time limit; Next Level is taken only
\* from a Completed session below the last level and starts the level after
\* it, so no session has a level beyond the last.
C22_LevelStart ==
    [][/\ StartsLevel
          => (/\ gameState'.level = lastOp'.arg
              /\ Status(gameState') = "playing"
              /\ gameState'.tubes \in generateLevel(sessionConfig(lastOp'.arg))
              /\ gameState'.initialTubes = gameState'.tubes
              /\ gameState'.selectedTubeId = NullId
              /\ gameState'.moves = 0
              /\ gameState'.history = << >>
              /\ gameState'.maxMoves = sessionConfig(lastOp'.arg).maxMoves
              /\ gameState'.timeLeft = sessionConfig(lastOp'.arg).timeLimit
              /\ gameState'.totalTime = gameState'.timeLeft
              /\ ~showLevelMenu')
       /\ (lastOp'.op = "nextLevel")
          => (/\ gameState.isCompleted
              /\ gameState.level < TOTAL_LEVELS - 1
              /\ lastOp'.arg = gameState.level + 1)
       /\ (gameState' # Null) => gameState'.level \in 0..(TOTAL_LEVELS - 1)]_vars

\* Next Level has just started level 1 from the Completed session of level 0.
C22_Witness ==
    /\ Started
    /\ lastOp.op = "nextLevel"
    /\ lastOp.was = "completed"
    /\ gameState.level = 1
    /\ Status(gameState) = "playing"
    /\ gameState.moves = 0
    /\ gameState.timeLeft = gameState.totalTime

\* C23: a step of a started session that does not start a level leaves
\* initialTubes as it is: select, valid and invalid move, undo, tick, reset,
\* menu and resume.
C23_InitialBoardFixed ==
    [][(Started /\ ~StartsLevel)
          => gameState'.initialTubes = gameState.initialTubes]_vars

\* A move has just been made after an undo, on a board that is not the
\* initial one, in a session that has at least two moves behind it.
C23_Witness ==
    /\ Started
    /\ lastOp.op = "tubeClick"
    /\ gameState.moves >= 2
    /\ Len(gameState.history) >= 1
    /\ gameState.moves > Len(gameState.history)
    /\ gameState.tubes # gameState.initialTubes

\* The board has the tubes of the reference board: as many, with the same
\* ids and capacities in the same order, none holding more than its capacity.
SameTubes(board, reference) ==
    /\ Len(board) = Len(reference)
    /\ \A i \in 1..Len(board) :
          /\ board[i].id = reference[i].id
          /\ board[i].capacity = reference[i].capacity
          /\ board[i].capacity = TUBE_CAPACITY
          /\ Len(board[i].balls) <= board[i].capacity

\* C24: in a started session every tube of the board and of every history
\* snapshot holds at most its capacity of 4 balls, and the board and every
\* snapshot have the tubes of the level start: as many, with the same ids
\* and capacities.
C24_TubesFixed ==
    Started
    =>
    (/\ SameTubes(gameState.tubes, gameState.initialTubes)
     /\ \A k \in 1..Len(gameState.history) :
           SameTubes(gameState.history[k], gameState.initialTubes))

\* A click has just been refused as a move although the colours match,
\* because the clicked tube is full; the history holds a snapshot.
C24_Witness ==
    /\ Started
    /\ lastOp.op = "tubeClick"
    /\ lastOp.was = "playing"
    /\ lastOp.sel # NullId
    /\ lastOp.sel # lastOp.arg
    /\ OnBoard(gameState.tubes, lastOp.arg)
    /\ gameState.selectedTubeId = lastOp.arg
    /\ Len(gameState.history) >= 1
    /\ LET s == TubeOf(gameState.tubes, lastOp.sel)
           d == TubeOf(gameState.tubes, lastOp.arg)
       IN  /\ Len(d.balls) = d.capacity
           /\ Len(s.balls) > 0
           /\ s.balls[Len(s.balls)].colorId = d.balls[Len(d.balls)].colorId

\* C25: in a started session the length of the history is the number of
\* valid moves applied minus the number of effective undos performed since
\* the last level start or reset.
C25_HistoryLength ==
    Started => Len(gameState.history) = tally.applied - tally.undone

\* Three valid moves and one effective undo since the level start or reset:
\* the history holds two snapshots.
C25_Witness ==
    /\ Started
    /\ tally.applied = 3
    /\ tally.undone = 1
    /\ Len(gameState.history) = 2

\* The capacity-legal scramble moves on a board: source non-empty, destination
\* not full, source and destination different.
CapacityLegal(tubes) ==
    {m \in [from : 0..(Len(tubes) - 1), to : 0..(Len(tubes) - 1)] :
        /\ m.from # m.to
        /\ Len(tubes[m.from + 1].balls) > 0
        /\ Len(tubes[m.to + 1].balls) < tubes[m.to + 1].capacity}

\* C26: at each scramble step the random move is drawn from the
\* capacity-legal moves without the exact reverse of the preceding move (from
\* its destination to its source) when that leaves a move, from all
\* capacity-legal moves otherwise, and the scramble stops when there is no
\* capacity-legal move.
C26_ScramblePool ==
    [][(genPc = "scramble" /\ genI < genConfig.shuffles)
          =>
          LET legal      == CapacityLegal(genTubes)
              nonReverse == legal \ {[from |-> genPrevTo, to |-> genPrev]}
          IN  IF legal = {}
              THEN genPc' = "repair" /\ genTubes' = genTubes
              ELSE /\ genPc' = "scramble"
                   /\ genPool' = IF nonReverse # {} THEN nonReverse ELSE legal]_vars

\* C27: in a started session a selection, when there is one, is the id of a
\* tube of the current board that holds at least one ball.
C27_SelectionValid ==
    (Started /\ gameState.selectedTubeId # NullId)
    =>
    (/\ OnBoard(gameState.tubes, gameState.selectedTubeId)
     /\ Len(TubeOf(gameState.tubes, gameState.selectedTubeId).balls) >= 1)

\* After a move and an undo, a click has just selected a tube that holds a
\* single ball.
C27_Witness ==
    /\ Started
    /\ lastOp.op = "tubeClick"
    /\ gameState.selectedTubeId = lastOp.arg
    /\ OnBoard(gameState.tubes, lastOp.arg)
    /\ Len(TubeOf(gameState.tubes, lastOp.arg).balls) = 1
    /\ tally.undone >= 1

\* C28: in a started session isCompleted is true exactly when the board
\* satisfies checkWinCondition, and a session that is Playing (no flag set)
\* or Failed (isFailed set) does not show a winning board.
C28_CompletedIffWin ==
    Started
    =>
    (/\ gameState.isCompleted <=> checkWinCondition(gameState.tubes)
     /\ (gameState.isFailed \/ ~gameState.isCompleted)
           => ~checkWinCondition(gameState.tubes))

\* C29: in a started session the board equals initialTubes when the history
\* is empty, and the first snapshot of a non-empty history equals
\* initialTubes.
C29_HistoryBase ==
    Started
    =>
    IF Len(gameState.history) = 0
    THEN gameState.tubes = gameState.initialTubes
    ELSE gameState.history[1] = gameState.initialTubes

\* Two moves have been undone one after the other: the history is empty and
\* the board is the initial one again.
C29_Witness ==
    /\ Started
    /\ lastOp.op = "undo"
    /\ lastOp.arg = 1
    /\ tally.applied >= 2
    /\ tally.undone >= 2
    /\ Len(gameState.history) = 0
    /\ gameState.tubes = gameState.initialTubes

\* C30: in a started session the history is no longer than moves, and moves
\* is at most maxMoves.
C30_MoveBudget ==
    Started
    =>
    (/\ Len(gameState.history) <= gameState.moves
     /\ gameState.moves <= gameState.maxMoves)

\* A click that would have been a move has just been ignored in a session
\* that Failed on its last allowed move, after an undo had left the history
\* shorter than moves.
C30_Witness ==
    /\ Started
    /\ lastOp.op = "tubeClick"
    /\ lastOp.was = "failed"
    /\ gameState.moves = gameState.maxMoves
    /\ Len(gameState.history) < gameState.moves
    /\ tally.undone >= 1
    /\ gameState.timeLeft > 0

\* The balls on a board, each with its id and colour.
BallsOf(tubes) ==
    UNION {{tubes[i].balls[k] : k \in 1..Len(tubes[i].balls)} : i \in 1..Len(tubes)}

\* C31: in a started session the board holds exactly 4 balls of each colour
\* 0..numColors-1 and none of another colour; the balls are those of the
\* level start, each with its colour.
C31_BallsConserved ==
    Started
    =>
    LET numColors == sessionConfig(gameState.level).numColors
    IN  /\ \A c \in 0..(numColors - 1) :
              CountColor(gameState.tubes, c, 1) = TUBE_CAPACITY
        /\ \A i \in 1..Len(gameState.tubes) :
              Colors(gameState.tubes[i].balls) \subseteq 0..(numColors - 1)
        /\ BallsOf(gameState.tubes) = BallsOf(gameState.initialTubes)

\* On level 0, taken up again after its completion, a move has been made
\* and undone and another move made: the board differs from the initial one.
C31_Witness ==
    /\ Started
    /\ lastOp.op = "tubeClick"
    /\ tally.applied = 2
    /\ tally.undone = 1
    /\ gameState.tubes # gameState.initialTubes
    /\ gameState.timeLeft = gameState.totalTime
    /\ unlockedLevels = 2
    /\ gameState.level = 0

\* C32: from the default frontier of 1, the level of the session is always
\* below the unlock frontier, and the frontier is at least 1 and at most
\* TOTAL_LEVELS.
C32_LevelBelowFrontier ==
    /\ unlockedLevels >= 1
    /\ unlockedLevels <= TOTAL_LEVELS
    /\ Started => (gameState.level >= 0 /\ gameState.level < unlockedLevels)

\* The last level has just been completed, after it was started from the menu
\* or by Next Level: the frontier stays at TOTAL_LEVELS.
C32_Witness ==
    /\ Started
    /\ lastOp.op = "tubeClick"
    /\ lastOp.was = "playing"
    /\ gameState.isCompleted
    /\ gameState.level = TOTAL_LEVELS - 1
    /\ unlockedLevels = TOTAL_LEVELS

\* The game view shows a Playing session and no updater has thrown.
PlayingInView ==
    /\ Started
    /\ ~showLevelMenu
    /\ ~crashed
    /\ Status(gameState) = "playing"

\* The last step was a level start or a reset.
JustRestarted == lastOp.op \in {"levelSelect", "nextLevel", "reset"}

\* C33: with the interval firing and the effects running, a Playing session
\* in the game view becomes Completed or Failed unless the menu is opened or
\* a level start or reset comes first, whatever clicks and undos are made;
\* and after a reset or a level start the timer is armed again, unless the
\* session has left the Playing state or the game view first.
C33_EventuallyTerminal ==
    /\ PlayingInView
          ~> (\/ Status(gameState) \in {"completed", "failed", "both"}
              \/ showLevelMenu
              \/ crashed
              \/ JustRestarted)
    /\ (PlayingInView /\ JustRestarted)
          ~> (timerArmed \/ ~PlayingInView)

\* On level 1, reached by completing level 0, the time has just run out on a
\* session in which a move had been made and undone.
C33_Witness ==
    /\ Started
    /\ lastOp.op = "tick"
    /\ lastOp.was = "playing"
    /\ gameState.level = 1
    /\ gameState.isFailed
    /\ gameState.timeLeft = 0
    /\ tally.undone >= 1

=============================================================================
